---- MODULE Spec2Model ----
(***************************************************************************)
(* Model of fredjeck/timely, package timeutils: the Durations ledger       *)
(* (a Go slice of time.Time) with Append, RemoveItem and                   *)
(* SumPairedDurationsWithNow.                                              *)
(*                                                                         *)
(* A Go slice is a header (ptr, len, cap) over a backing array, so the     *)
(* model keeps a heap of backing arrays: append writes into the spare      *)
(* capacity of the array it is given or allocates a new one, and           *)
(* sort.Slice permutes the array in place.  Instants are natural numbers   *)
(* (one unit = one minute of the same calendar day); 0 is time.Time{}.     *)
(***************************************************************************)
EXTENDS Integers, Sequences, FiniteSets, TLC

\* ---------------------------------------------------------------- bounds
MaxTime == 3
MaxLen == 4
SpareCap == 1

\* ------------------------------------------------------------ time.Time
Zero == 0
Time == Zero..MaxTime
IsZero(t) == t = Zero
Before(a, b) == a < b
Sub(end, start) == end - start

\* --------------------------------------------------------- slices, heap
Ptrs == 1..4
Slice(p, n, c) == [ptr |-> p, len |-> n, cap |-> c]
Zeros(n) == [i \in 1..n |-> Zero]

\* The elements a slice header shows: the first len cells of its array.
View(h, s) == IF s.len = 0 THEN << >> ELSE SubSeq(h[s.ptr], 1, s.len)

\* The array cells behind the header's length (spare capacity and beyond).
Rest(h, s) == IF s.ptr = 0 THEN << >> ELSE SubSeq(h[s.ptr], s.len + 1, Len(h[s.ptr]))

\* A fresh backing array: the lowest address no live slice points to.
Alloc(live) == CHOOSE p \in Ptrs : p \notin live /\ \A q \in Ptrs : q \notin live => p <= q

\* Arrays no live slice points to are collected.
Collect(h, live) == [p \in Ptrs |-> IF p \in live THEN h[p] ELSE << >>]

\* Capacity of the array append allocates when the old one is full.
GrowCap(oldcap, needed) == IF needed > 2 * oldcap THEN needed ELSE 2 * oldcap

\* Go's append(s, t): in place when cap allows, else into a new array.
append(h, s, t, live) ==
    IF s.len < s.cap
      THEN [heap  |-> [h EXCEPT ![s.ptr][s.len + 1] = t],
            slice |-> Slice(s.ptr, s.len + 1, s.cap)]
      ELSE LET nc == GrowCap(s.cap, s.len + 1)
               p  == Alloc(live \cup {s.ptr})
           IN  [heap  |-> [h EXCEPT ![p] = View(h, s) \o << t >> \o Zeros(nc - s.len - 1)],
                slice |-> Slice(p, s.len + 1, nc)]

\* ------------------------------------------------------------- sorting
RECURSIVE Insert(_, _)
Insert(sorted, x) ==
    IF sorted = << >> THEN << x >>
    ELSE IF Before(x, Head(sorted)) THEN << x >> \o sorted
    ELSE << Head(sorted) >> \o Insert(Tail(sorted), x)

RECURSIVE sortSlice(_)
sortSlice(s) == IF s = << >> THEN << >> ELSE Insert(sortSlice(Tail(s)), Head(s))

\* Mutant: the sort is left out.
sortTimesAscending_Skip(h, s) == h

\* sortTimesAscending(times): sort.Slice permutes the slice's cells in place.
sortTimesAscending(h, s) ==
    IF s.len = 0 THEN h ELSE [h EXCEPT ![s.ptr] = sortSlice(View(h, s)) \o Rest(h, s)]

\* ------------------------------------------------------------ Durations
\* Mutant: a value already in the ledger is not added again.
Durations_Append_Merge(h, durations_, t) ==
    IF \E i \in 1..durations_.len : h[durations_.ptr][i] = t
      THEN [heap |-> h, ret |-> durations_, panic |-> FALSE]
      ELSE LET values == append(h, durations_, t, {durations_.ptr})
           IN  [heap |-> sortTimesAscending(values.heap, values.slice),
                ret  |-> values.slice,
                panic |-> FALSE]

\* Durations.Append(t): values := append(durations, t); sort; return values.
Durations_Append(h, durations_, t) ==
    LET values == append(h, durations_, t, {durations_.ptr})
    IN  [heap |-> sortTimesAscending(values.heap, values.slice),
         ret  |-> values.slice,
         panic |-> FALSE]

\* Mutant: an index equal to the length passes the bounds test.
OutOfBounds_OffByOne(index, n) == index < 0 \/ index > n

\* The bounds test at the head of RemoveItem.
OutOfBounds(index, n) == index < 0 \/ index >= n

\* duration[index+1:] panics unless 0 <= index+1 <= len; duration[:index]
\* panics unless 0 <= index <= cap.
SlicePanics(s, index) == index + 1 < 0 \/ index + 1 > s.len \/ index < 0 \/ index > s.cap

\* Mutant: whatever the index, the last element is the one dropped.
removeShift_DropLast(h, s, index) ==
    [heap |-> h, slice |-> Slice(s.ptr, s.len - 1, s.cap)]

\* append(duration[:index], duration[index+1:]...): the tail is moved one
\* cell to the left inside the same array (it always fits), the cell that
\* was last keeps its old value, and the header is one shorter.
removeShift(h, s, index) ==
    LET arr  == h[s.ptr]
        tail == SubSeq(arr, index + 2, s.len)
    IN  [heap  |-> [h EXCEPT ![s.ptr] =
                      SubSeq(arr, 1, index) \o tail \o SubSeq(arr, s.len, Len(arr))],
         slice |-> Slice(s.ptr, s.len - 1, s.cap)]

\* Durations.RemoveItem(index).
Durations_RemoveItem(h, duration, index) ==
    IF OutOfBounds(index, duration.len)
      THEN [heap |-> h, ret |-> duration, panic |-> FALSE]
    ELSE IF SlicePanics(duration, index)
      THEN [heap |-> h, ret |-> duration, panic |-> TRUE]
    ELSE LET values == removeShift(h, duration, index)
         IN  [heap |-> sortTimesAscending(values.heap, values.slice),
              ret  |-> values.slice,
              panic |-> FALSE]

\* Mutant: tlist := times, the working copy is the caller's slice.
makeCopy_Alias(h, times, live) == [heap |-> h, slice |-> times]

\* tlist := make([]time.Time, len(times)); copy(tlist, times)
makeCopy(h, times, live) ==
    LET p == Alloc(live \cup {times.ptr})
    IN  [heap  |-> [h EXCEPT ![p] = View(h, times)],
         slice |-> Slice(p, times.len, times.len)]

\* Mutant: the working copy is paired in the order it was given.
sortTlist_Skip(h, tlist) == h

\* sort.Slice(tlist, ...Before...) on the working copy.
sortTlist(h, tlist) ==
    IF tlist.len = 0 THEN h
    ELSE [h EXCEPT ![tlist.ptr] = sortSlice(View(h, tlist)) \o Rest(h, tlist)]

\* Mutant: now is added whatever the parity of the length.
NeedsNow_AnyParity(n, now) == ~IsZero(now)

\* Mutant: the zero sentinel is added like any other now.
NeedsNow_ZeroToo(n, now) == n % 2 = 1

\* if len(tlist)%2 == 1 && !now.IsZero() { tlist = append(tlist, now) }
NeedsNow(n, now) == n % 2 = 1 /\ ~IsZero(now)

\* Mutant: start.Sub(end) is added to the total, with no test of its sign.
RECURSIVE pairLoop_Signed(_, _, _)
pairLoop_Signed(tlist, i, total) ==
    IF ~(i < Len(tlist)) THEN total
    ELSE IF (i + 1) >= Len(tlist) THEN total
    ELSE pairLoop_Signed(tlist, i + 2, total + Sub(tlist[i + 1], tlist[i + 2]))

\* Mutant: the loop stops one cell early, before a pair that ends in the
\* last cell.
RECURSIVE pairLoop_StopEarly(_, _, _)
pairLoop_StopEarly(tlist, i, total) ==
    IF ~(i < Len(tlist)) THEN total
    ELSE IF (i + 2) >= Len(tlist) THEN total
    ELSE LET start == tlist[i + 1]
             end   == tlist[i + 2]
             d     == Sub(end, start)
         IN  pairLoop_StopEarly(tlist, i + 2, IF d > 0 THEN total + d ELSE total)

\* The pairing loop: i steps by two over the 0-based indices of tlist.
RECURSIVE pairLoop(_, _, _)
pairLoop(tlist, i, total) ==
    IF ~(i < Len(tlist)) THEN total
    ELSE IF (i + 1) >= Len(tlist) THEN total
    ELSE LET start == tlist[i + 1]
             end   == tlist[i + 2]
             d     == Sub(end, start)
         IN  pairLoop(tlist, i + 2, IF d > 0 THEN total + d ELSE total)

\* SumPairedDurationsWithNow(times, now): the heap it leaves and its result.
SumPairedDurationsWithNow(h, times, now) ==
    IF times.len = 0 THEN [heap |-> h, total |-> 0]
    ELSE LET c  == makeCopy(h, times, {times.ptr})
             a  == IF NeedsNow(c.slice.len, now)
                     THEN append(c.heap, c.slice, now, {times.ptr, c.slice.ptr})
                     ELSE c
             hs == sortTlist(a.heap, a.slice)
         IN  [heap |-> hs, total |-> pairLoop(View(hs, a.slice), 0, 0)]


\* --------------------------------------------------------------- parser
\* Strings are sequences of one-character strings.
MaxInputLen == 5
DigitChars == << "0", "1", "2", "3", "4", "5", "6", "7", "8", "9" >>
Digits == {DigitChars[i] : i \in 1..10}
Chars == Digits \cup {":", " ", "a"}
Strings == UNION {[1..n -> Chars] : n \in 0..MaxInputLen}

IsDigit(c) == c \in Digits
DigitVal(c) == (CHOOSE i \in 1..10 : DigitChars[i] = c) - 1
AllDigits(s) == \A i \in DOMAIN s : IsDigit(s[i])

\* Mutant: the minutes after the colon may be one digit or two.
validTimeFormat_LooseMinutes(s) ==
    \/ Len(s) \in 1..4 /\ AllDigits(s)
    \/ \E k \in 1..2 : \E j \in 1..2 :
          /\ Len(s) = k + 1 + j
          /\ AllDigits(SubSeq(s, 1, k))
          /\ s[k + 1] = ":"
          /\ AllDigits(SubSeq(s, k + 2, Len(s)))

\* validTimeFormat.MatchString: ^(\d{1,4}|\d{1,2}:\d{2})$ on the whole string.
validTimeFormat(s) ==
    \/ Len(s) \in 1..4 /\ AllDigits(s)
    \/ \E k \in 1..2 :
          /\ Len(s) = k + 3
          /\ AllDigits(SubSeq(s, 1, k))
          /\ s[k + 1] = ":"
          /\ AllDigits(SubSeq(s, k + 2, k + 3))

\* strings.ReplaceAll(timeStr, ":", "")
RECURSIVE removeColons(_)
removeColons(s) ==
    IF s = << >> THEN << >>
    ELSE IF Head(s) = ":" THEN removeColons(Tail(s))
    ELSE << Head(s) >> \o removeColons(Tail(s))

\* Mutant: three digits are read as HHM, a zero is added at the end.
normalize_PadRight(s) ==
    IF Len(s) \in {1, 2} THEN (IF Len(s) = 1 THEN << "0" >> \o s ELSE s) \o << "0", "0" >>
    ELSE IF Len(s) = 3 THEN s \o << "0" >>
    ELSE s

\* The switch on len(timeStr): fmt.Sprintf("%02s00", s) pads s with a
\* zero on the left to two characters and adds "00"; three digits get one
\* leading "0"; four are kept.  (Any other length is the default branch.)
normalize(s) ==
    IF Len(s) \in {1, 2} THEN (IF Len(s) = 1 THEN << "0" >> \o s ELSE s) \o << "0", "0" >>
    ELSE IF Len(s) = 3 THEN << "0" >> \o s
    ELSE s

\* strconv.Atoi on a string of decimal digits.
RECURSIVE Atoi(_)
Atoi(s) == IF s = << >> THEN 0 ELSE 10 * Atoi(SubSeq(s, 1, Len(s) - 1)) + DigitVal(s[Len(s)])

\* Mutant: 24 is taken as an hour and 60 as a minute.
InRange_Inclusive(hours, minutes) ==
    IF hours < 0 \/ hours > 24 THEN "hours"
    ELSE IF minutes < 0 \/ minutes > 60 THEN "minutes"
    ELSE "nil"

\* The two range tests; "nil" when both pass.
InRange(hours, minutes) ==
    IF hours < 0 \/ hours > 23 THEN "hours"
    ELSE IF minutes < 0 \/ minutes > 59 THEN "minutes"
    ELSE "nil"

\* time.Time{} as ParseTime returns it beside an error.
NoTime == [zero |-> TRUE, hour |-> 0, minute |-> 0, second |-> 0, nsec |-> 0]

\* Mutant: the seconds of the wall clock are kept.
Date_KeepSeconds(hours, minutes) ==
    [zero |-> FALSE, hour |-> hours, minute |-> minutes, second |-> 1, nsec |-> 0]

\* time.Date(now.Year(), now.Month(), now.Day(), hours, minutes, 0, 0,
\* time.Local), for a day on which every wall-clock minute exists.
Date(hours, minutes) ==
    [zero |-> FALSE, hour |-> hours, minute |-> minutes, second |-> 0, nsec |-> 0]

\* ParseTime(timeStr): the error ("nil" for none) and the time.
ParseTime(s) ==
    IF ~validTimeFormat(s) THEN [err |-> "format", time |-> NoTime]
    ELSE LET stripped == removeColons(s)
         IN  IF Len(stripped) \notin 1..4 THEN [err |-> "length", time |-> NoTime]
             ELSE LET n       == normalize(stripped)
                      hours   == Atoi(SubSeq(n, 1, 2))
                      minutes == Atoi(SubSeq(n, 3, Len(n)))
                      range   == InRange(hours, minutes)
                  IN  IF range # "nil" THEN [err |-> range, time |-> NoTime]
                      ELSE [err |-> "nil", time |-> Date(hours, minutes)]

\* Mutant: the hour is written on the 12-hour clock ("03:04").
FormatTime_12h(d) ==
    LET h == IF d.hour % 12 = 0 THEN 12 ELSE d.hour % 12
    IN  << DigitChars[(h \div 10) + 1], DigitChars[(h % 10) + 1], ":",
           DigitChars[(d.minute \div 10) + 1], DigitChars[(d.minute % 10) + 1] >>

\* d.Format("15:04"): two digits of the hour, a colon, two of the minute.
TwoDigits(n) == << DigitChars[(n \div 10) + 1], DigitChars[(n % 10) + 1] >>
FormatTime(d) == TwoDigits(d.hour) \o << ":" >> \o TwoDigits(d.minute)


\* ------------------------------------------------------- FormatDuration
\* time.Duration is a signed integer that wraps on overflow; the model
\* keeps that arithmetic at DurationBits bits, one unit being half a minute.
DurationBits == 12
MinDuration == 0 - (2 ^ (DurationBits - 1))
MaxDuration == (2 ^ (DurationBits - 1)) - 1
Duration == MinDuration..MaxDuration
Wrap(x) == ((x - MinDuration) % (2 ^ DurationBits)) + MinDuration
Minute == 2
Hour == 60 * Minute

\* The goroutine's stack holds this many frames of FormatDuration before
\* the run time ends the program with a stack overflow.
MaxStack == 3

\* -d
Neg(d) == Wrap(0 - d)

\* %02d: the decimal digits of n, at least two of them.
RECURSIVE Itoa(_)
Itoa(n) == IF n < 10 THEN << DigitChars[n + 1] >> ELSE Itoa(n \div 10) \o << DigitChars[(n % 10) + 1] >>
Sprintf02d(n) == IF n < 10 THEN << "0" >> \o Itoa(n) ELSE Itoa(n)

\* Mutant: the minutes are printed before the hours.
formatHM_Swapped(d) ==
    Sprintf02d((d % Hour) \div Minute) \o << ":" >> \o Sprintf02d(d \div Hour)

\* h := int(d / time.Hour); m := int((d % time.Hour) / time.Minute);
\* fmt.Sprintf("%02d:%02d", h, m), for d >= 0.
formatHM(d) ==
    Sprintf02d(d \div Hour) \o << ":" >> \o Sprintf02d((d % Hour) \div Minute)

\* One activation of FormatDuration on frame.d: a negative d writes "-"
\* and calls FormatDuration(-d) in a new frame; any other d is formatted
\* and every frame returns.
FormatDurationStep(frame) ==
    IF frame.d < 0
      THEN IF frame.depth >= MaxStack
             THEN [frame EXCEPT !.pc = "overflow"]
             ELSE [frame EXCEPT !.out = frame.out \o << "-" >>,
                                !.d = Neg(frame.d),
                                !.depth = frame.depth + 1]
      ELSE [frame EXCEPT !.pc = "done", !.out = frame.out \o formatHM(frame.d)]

\* No call of FormatDuration is under way.
NoFrame == [pc |-> "idle", arg |-> 0, d |-> 0, out |-> << >>, depth |-> 0]


\* ------------------------------------------------- Last and StringSlice
\* An instant other than time.Time{} is a minute of the current day:
\* instant 1 is 00:00, instant 1 + 60h + m is h:m.
At(h, m) == 1 + 60 * h + m

\* The wall clock of an instant, as Format reads it.
Clock(t) ==
    IF IsZero(t) THEN NoTime
    ELSE [zero |-> FALSE, hour |-> ((t - 1) \div 60) % 24, minute |-> (t - 1) % 60,
          second |-> 0, nsec |-> 0]

\* Mutant: the first element is returned.
Durations_Last_First(h, durations_) ==
    IF durations_.len = 0 THEN Zero ELSE h[durations_.ptr][1]

\* Durations.Last()
Durations_Last(h, durations_) ==
    IF durations_.len = 0 THEN Zero ELSE h[durations_.ptr][durations_.len]

\* Mutant: the strings are appended to the slice make returned, behind
\* its len(duration) empty strings.
Durations_StringSlice_Appended(h, duration) ==
    [isNil |-> FALSE,
     strs  |-> [i \in 1..duration.len |-> << >>]
               \o [i \in 1..duration.len |-> FormatTime(Clock(h[duration.ptr][i]))]]

\* Durations.StringSlice(): make([]string, len(duration)) is never nil;
\* cell i gets d.Format("15:04") of element i.
Durations_StringSlice(h, duration) ==
    [isNil |-> FALSE,
     strs  |-> [i \in 1..duration.len |-> FormatTime(Clock(h[duration.ptr][i]))]]


\* ----------------------------------------------------- platform.Startup
\* What the external command gave: whether it failed, and its output.
Cmd(failed, output) == [err |-> failed, output |-> output]

\* strings.TrimSpace / strings.Trim(s, "\r\n"): the cut set is removed
\* from both ends.
RECURSIVE trimLeft(_, _)
trimLeft(s, cut) == IF s # << >> /\ Head(s) \in cut THEN trimLeft(Tail(s), cut) ELSE s
RECURSIVE trimRight(_, _)
trimRight(s, cut) ==
    IF s # << >> /\ s[Len(s)] \in cut THEN trimRight(SubSeq(s, 1, Len(s) - 1), cut) ELSE s
trim(s, cut) == trimRight(trimLeft(s, cut), cut)

\* hours, _ := strconv.Atoi(...): 0 when the text is not a number.
atoiIgnoringError(s) == IF s # << >> /\ AllDigits(s) THEN Atoi(s) ELSE 0

\* What a run of Startup ends in: a panic, an error, or an instant.
Panicked == [panic |-> TRUE, err |-> FALSE, up |-> Zero]
Failed == [panic |-> FALSE, err |-> TRUE, up |-> Zero]
Up(t) == [panic |-> FALSE, err |-> FALSE, up |-> t]

\* s[0:2] and s[3:5] panic when s has fewer than 5 characters; then
\* time.Date(today, hours, minutes, 0, 0, now.Location()).
clockOf(s) ==
    IF Len(s) < 5 THEN Panicked
    ELSE Up(At(atoiIgnoringError(SubSeq(s, 1, 2)), atoiIgnoringError(SubSeq(s, 4, 5))))

\* Startup on Linux: who -b; an error of the command is returned; the
\* trimmed output is sliced from offset 24, which panics when it is shorter.
Startup_linux(cmd) ==
    IF cmd.err THEN Failed
    ELSE LET trimmed == trim(cmd.output, {" ", "\n", "\r"})
         IN  IF Len(trimmed) < 24 THEN Panicked
             ELSE clockOf(SubSeq(trimmed, 25, Len(trimmed)))

\* Startup on Windows: the error of the command only leaves outputStr
\* empty; the slicing follows in either case and the error returned is nil.
Startup_windows(cmd) ==
    clockOf(IF cmd.err THEN << >> ELSE trim(cmd.output, {"\r", "\n"}))

\* Startup on any other platform: not implemented, an error.
Startup_other(cmd) == Failed

Platforms == {"linux", "windows", "other"}
Startup(platform, cmd) ==
    IF platform = "linux" THEN Startup_linux(cmd)
    ELSE IF platform = "windows" THEN Startup_windows(cmd)
    ELSE Startup_other(cmd)

\* Outputs of the command: 24 characters of labels and date before the
\* time (who -b), the bare time (PowerShell), nothing, too little, no digits.
Filler(n) == [i \in 1..n |-> "a"]
WhoOutput(text) == << " ", " " >> \o Filler(24) \o text \o << "\n" >>
ProbeCommands ==
    { Cmd(TRUE, << >>),
      Cmd(FALSE, << >>),
      Cmd(FALSE, WhoOutput(<< >>)),
      Cmd(FALSE, WhoOutput(<< "0", "7", ":", "4", "5" >>)),
      Cmd(FALSE, WhoOutput(<< "a", "a", ":", "a", "a" >>)),
      Cmd(FALSE, << "0", "7", ":", "4", "5", "\r", "\n" >>) }


\* -------------------------------------------------------------- session
\* Ledger entries the session run is cut at.
MaxEntries == 3

\* ti.CharLimit = 5
CharLimit == 5

\* The instant a time.Time of the current day stands for.
Instant(tm) == IF tm.zero THEN Zero ELSE At(tm.hour, tm.minute)

\* time.Duration(t.Hour())*time.Hour + time.Duration(t.Minute())*time.Minute,
\* in the unit of Sub (minutes); the zero time when the argument was
\* rejected.
TargetOf(timeStr_) ==
    LET r == ParseTime(timeStr_) IN 60 * r.time.hour + r.time.minute

\* const target = 8*time.Hour + 30*time.Minute
FixedTarget == 60 * 8 + 30

\* list.Model: the items and the cursor (one page).
NewList == [items |-> << >>, cursor |-> 0]
list_Index(l) == l.cursor
list_SetItems(l, items) == [l EXCEPT !.items = items]
\* Mutant: the removal also pulls the cursor back onto the last row.
list_RemoveItem_Clamped(l, index) ==
    IF index >= Len(l.items) THEN l
    ELSE LET n == Len(l.items) - 1
         IN  [items  |-> [i \in 1..n |-> IF i <= index THEN l.items[i] ELSE l.items[i + 1]],
              cursor |-> IF l.cursor > n - 1 THEN (IF n - 1 > 0 THEN n - 1 ELSE 0)
                         ELSE l.cursor]

list_RemoveItem(l, index) ==
    IF index >= Len(l.items) THEN l
    ELSE [l EXCEPT !.items = [i \in 1..(Len(l.items) - 1) |->
                                 IF i <= index THEN l.items[i] ELSE l.items[i + 1]]]
list_CursorUp(l) == [l EXCEPT !.cursor = IF l.cursor - 1 >= 0 THEN l.cursor - 1 ELSE 0]
list_CursorDown(l) ==
    LET n == Len(l.items)
        c == l.cursor + 1
    IN  [l EXCEPT !.cursor = IF c < n THEN c
                             ELSE IF c > n THEN 0
                             ELSE IF n = 0 THEN 0 ELSE n - 1]
\* list.Update: the cursor keys, then the cursor is kept on the page.
list_Update(l, key) ==
    LET moved == IF key = "up" THEN list_CursorUp(l)
                 ELSE IF key = "down" THEN list_CursorDown(l)
                 ELSE l
        n == Len(moved.items)
    IN  IF moved.cursor > n - 1
        THEN [moved EXCEPT !.cursor = IF n - 1 > 0 THEN n - 1 ELSE 0]
        ELSE moved

\* textinput.Update: a typed character is added up to CharLimit.
textInput_Update(value, key) ==
    IF key \in Chars /\ Len(value) < CharLimit THEN Append(value, key) ELSE value

\* last.Add(remaining).Format("15:04"): the clock reading, whatever the day.
AddFormat(last, remaining) ==
    LET minuteOfDay == ((last - 1) + remaining) % (24 * 60)
    IN  FormatTime(Clock(1 + minuteOfDay))

\* tmin/ta as a fraction; 1 when the target is exceeded.
Percentage(total_, target_) ==
    IF total_ > target_ THEN [num |-> 1, den |-> 1] ELSE [num |-> total_, den |-> target_]

\* Mutant: the projected finish is cleared when the ledger has no last
\* entry.
RecalculateDurations_ClearPlanned(h, m_, durations_, now) ==
    LET provisional == SumPairedDurationsWithNow(h, durations_, now).total
        total_ == SumPairedDurationsWithNow(h, durations_, Zero).total
        last == Durations_Last(h, durations_)
    IN  [m_ EXCEPT !.totalProvisionnal = provisional,
                   !.total = total_,
                   !.overtime = total_ - m_.target,
                   !.planned = IF ~IsZero(last) THEN AddFormat(last, m_.target - total_)
                               ELSE << >>,
                   !.percentage = Percentage(total_, m_.target)]

\* model.RecalculateDurations with time.Now() = now.
RecalculateDurations(h, m_, durations_, now) ==
    LET provisional == SumPairedDurationsWithNow(h, durations_, now).total
        total_ == SumPairedDurationsWithNow(h, durations_, Zero).total
        last == Durations_Last(h, durations_)
    IN  [m_ EXCEPT !.totalProvisionnal = provisional,
                   !.total = total_,
                   !.overtime = total_ - m_.target,
                   !.planned = IF ~IsZero(last) THEN AddFormat(last, m_.target - total_)
                               ELSE m_.planned,
                   !.percentage = Percentage(total_, m_.target)]

\* model.Append / the accepted-enter branch: the ledger grows, the list is
\* rebuilt from StringSlice, the input is reset, the totals recomputed.
model_Append(h, m_, durations_, t, now) ==
    LET r == Durations_Append(h, durations_, t)
        h2 == Collect(r.heap, {r.ret.ptr})
        items == Durations_StringSlice(h2, r.ret).strs
        m2 == [m_ EXCEPT !.list = list_SetItems(m_.list, items), !.textInput = << >>]
    IN  [heap |-> h2, durations |-> r.ret,
         m |-> RecalculateDurations(h2, m2, r.ret, now)]

\* The enter branch when ParseTime fails: m.textInput.Reset() in the
\* variant with the start-up probe, nothing in the fixed-target variant.
RejectedInput(variant_, value) == IF variant_ = "probe" THEN << >> ELSE value

\* Mutant: the seed is inserted whatever the ledger holds.
SeedWanted_Always(durations_) == TRUE

\* if len(m.durations) == 0
SeedWanted(durations_) == durations_.len = 0

\* Mutant: the goroutine sends again after a send.
AfterSend_Again == "send"

\* The goroutine ends after p.Send.
AfterSend == "done"

\* ---------------------------------------------------------------- state
\* heap       the backing arrays
\* durations  the ledger its owner holds: the slice the last call returned
\* arg        the slice header that was passed to the last call
\* argBefore  the elements arg showed when the call was made
\* op, opTime, opIndex   the last call and its argument
\* total      the result of the last SumPairedDurationsWithNow
\* panicked   a call ended in a run-time panic
VARIABLES heap, durations, arg, argBefore, op, opTime, opIndex, total, panicked

\* timeStr    the string given to the last ParseTime call
\* parsed     what that call returned
\* formatted  the string the last FormatTime call returned
VARIABLES timeStr, parsed, formatted

\* fd         the running call of FormatDuration: its argument, the
\*            argument of the innermost activation, the text written so
\*            far and the number of activations on the stack
VARIABLES fd

\* lastRet    what the last Durations.Last call returned
\* strs       what the last Durations.StringSlice call returned
VARIABLES lastRet, strs

\* m          the session's model (bubbletea), but for its ledger, which
\*            is durations
\* variant    which main was built: with the start-up probe and the target
\*            argument, or with the fixed target
\* probe      the start-up goroutine: where it stands, what Startup gave
\* program    the bubbletea program: running, quit requested, exited,
\*            or crashed by a panic
\* delivered  the systemStartupTime messages Update has handled
\* seeded     the ledger entries Update has inserted for such messages
VARIABLES m, variant, probe, program, delivered, seeded

ledgerVars == << heap, durations, arg, argBefore, opTime, opIndex, total, panicked >>
parserVars == << timeStr, parsed, formatted >>
readVars == << lastRet, strs >>
sessionVars == << m, variant, probe, program, delivered, seeded >>
callVars == << arg, argBefore, opTime, opIndex, total, panicked >>
nonLedgerVars == << parserVars, fd, readVars, sessionVars >>
nonParserVars == << ledgerVars, fd, readVars, sessionVars >>
nonFormatVars == << ledgerVars, parserVars, readVars, sessionVars >>
nonSessionVars == << callVars, parserVars, fd, readVars >>

vars == << heap, durations, arg, argBefore, op, opTime, opIndex, total, panicked,
           timeStr, parsed, formatted, fd, lastRet, strs,
           m, variant, probe, program, delivered, seeded >>

\* Nothing has been parsed.
NoParse ==
    /\ timeStr = << >>
    /\ parsed = [err |-> "nil", time |-> NoTime]
    /\ formatted = << >>

\* make(timeutils.Durations, 0)
EmptyLedger == Slice(0, 0, 0)

NoCall ==
    /\ arg = EmptyLedger
    /\ argBefore = << >>
    /\ op = "none"
    /\ opTime = Zero
    /\ opIndex = 0
    /\ total = 0
    /\ panicked = FALSE

\* Neither Last nor StringSlice has been called.
NoRead ==
    /\ lastRet = Zero
    /\ strs = [isNil |-> TRUE, strs |-> << >>]

\* initialModel(target)
initialModel(target_) ==
    [list |-> NewList, textInput |-> << >>, total |-> 0, totalProvisionnal |-> 0,
     overtime |-> 0, planned |-> << >>, percentage |-> [num |-> 0, den |-> 1],
     quitting |-> FALSE, target |-> target_, startupTime |-> Zero]

NoResult == [panic |-> FALSE, err |-> FALSE, up |-> Zero]

\* No session is run.
NoSession ==
    /\ m = initialModel(0)
    /\ variant = "none"
    /\ probe = [pc |-> "absent", result |-> NoResult]
    /\ program = "none"
    /\ delivered = 0
    /\ seeded = 0

\* The session's ledger starts empty.
Init ==
    /\ heap = [p \in Ptrs |-> << >>]
    /\ durations = EmptyLedger
    /\ NoCall
    /\ NoParse
    /\ fd = NoFrame
    /\ NoRead
    /\ NoSession

\* Any sequence a caller may hand to the functions: any elements in any
\* order, held in an array with or without spare capacity.
InitFn ==
    /\ \E n \in 0..MaxLen : \E s \in [1..n -> Time] : \E c \in n..(n + SpareCap) :
          /\ durations = Slice(IF c = 0 THEN 0 ELSE 1, n, c)
          /\ heap = [p \in Ptrs |-> IF p = 1 /\ c > 0 THEN s \o Zeros(c - n) ELSE << >>]
    /\ NoCall
    /\ NoParse
    /\ fd = NoFrame
    /\ NoRead
    /\ NoSession

\* ledger = ledger.Append(t)
CallAppend(t) ==
    /\ ~panicked
    /\ durations.len < MaxLen
    /\ LET r == Durations_Append(heap, durations, t)
       IN  /\ heap' = Collect(r.heap, {r.ret.ptr, durations.ptr})
           /\ durations' = r.ret
           /\ panicked' = r.panic
    /\ arg' = durations
    /\ argBefore' = View(heap, durations)
    /\ op' = "Append"
    /\ opTime' = t
    /\ opIndex' = 0
    /\ total' = 0
    /\ UNCHANGED nonLedgerVars

\* ledger = ledger.RemoveItem(index)
CallRemoveItem(index) ==
    /\ ~panicked
    /\ LET r == Durations_RemoveItem(heap, durations, index)
       IN  /\ heap' = Collect(r.heap, {r.ret.ptr, durations.ptr})
           /\ durations' = r.ret
           /\ panicked' = r.panic
    /\ arg' = durations
    /\ argBefore' = View(heap, durations)
    /\ op' = "RemoveItem"
    /\ opTime' = Zero
    /\ opIndex' = index
    /\ total' = 0
    /\ UNCHANGED nonLedgerVars

\* total = SumPairedDurationsWithNow(ledger, now)
CallSum(now) ==
    /\ ~panicked
    /\ LET r == SumPairedDurationsWithNow(heap, durations, now)
       IN  /\ heap' = Collect(r.heap, {durations.ptr})
           /\ total' = r.total
    /\ durations' = durations
    /\ panicked' = FALSE
    /\ arg' = durations
    /\ argBefore' = View(heap, durations)
    /\ op' = "Sum"
    /\ opTime' = now
    /\ opIndex' = 0
    /\ UNCHANGED nonLedgerVars

Indices == (0 - 1)..MaxLen

Next ==
    \/ \E t \in Time : CallAppend(t)
    \/ \E index \in Indices : CallRemoveItem(index)
    \/ \E now \in Time : CallSum(now)

\* The ledger as its owner drives it, from empty.
Spec == Init /\ [][Next]_vars

\* The functions applied, in any order, starting from an arbitrary input.
SpecFn == InitFn /\ [][Next]_vars

\* Any string a caller may hand to ParseTime.
InitParse ==
    /\ heap = [p \in Ptrs |-> << >>]
    /\ durations = EmptyLedger
    /\ NoCall
    /\ \E n \in 0..MaxInputLen : timeStr \in [1..n -> Chars]
    /\ parsed = [err |-> "nil", time |-> NoTime]
    /\ formatted = << >>
    /\ fd = NoFrame
    /\ NoRead
    /\ NoSession

\* t, err := ParseTime(timeStr)
CallParseTime ==
    /\ op = "none"
    /\ op' = "ParseTime"
    /\ parsed' = ParseTime(timeStr)
    /\ timeStr' = timeStr
    /\ formatted' = formatted
    /\ UNCHANGED nonParserVars

\* got.Format("15:04") / FormatTime(t) on the time ParseTime returned.
CallFormatTime ==
    /\ op = "ParseTime"
    /\ parsed.err = "nil"
    /\ op' = "FormatTime"
    /\ formatted' = FormatTime(parsed.time)
    /\ UNCHANGED << timeStr, parsed >>
    /\ UNCHANGED nonParserVars

NextParse ==
    \/ CallParseTime
    \/ CallFormatTime

\* ParseTime applied to an arbitrary string.
SpecParse == InitParse /\ [][NextParse]_vars

\* Any duration a caller may hand to FormatDuration.
InitFormat ==
    /\ heap = [p \in Ptrs |-> << >>]
    /\ durations = EmptyLedger
    /\ NoCall
    /\ NoParse
    /\ NoRead
    /\ NoSession
    /\ \E d \in Duration :
          fd = [pc |-> "call", arg |-> d, d |-> d, out |-> << >>, depth |-> 1]

\* FormatDuration(d), one activation at a time.
CallFormatDuration ==
    /\ fd.pc = "call"
    /\ fd' = FormatDurationStep(fd)
    /\ op' = "FormatDuration"
    /\ UNCHANGED nonFormatVars

NextFormat ==
    \/ CallFormatDuration

\* FormatDuration applied to an arbitrary duration.
SpecFormat == InitFormat /\ [][NextFormat]_vars

\* last := ledger.Last()
CallLast ==
    /\ ~panicked
    /\ lastRet' = Durations_Last(heap, durations)
    /\ op' = "Last"
    /\ arg' = durations
    /\ argBefore' = View(heap, durations)
    /\ UNCHANGED << heap, durations, opTime, opIndex, total, panicked >>
    /\ UNCHANGED << parserVars, fd, strs, sessionVars >>

\* items := ledger.StringSlice()
CallStringSlice ==
    /\ ~panicked
    /\ strs' = Durations_StringSlice(heap, durations)
    /\ op' = "StringSlice"
    /\ arg' = durations
    /\ argBefore' = View(heap, durations)
    /\ UNCHANGED << heap, durations, opTime, opIndex, total, panicked >>
    /\ UNCHANGED << parserVars, fd, lastRet, sessionVars >>

\* The ledger driven from empty, with Last read off it.
NextLedger ==
    \/ \E t \in Time : CallAppend(t)
    \/ \E index \in Indices : CallRemoveItem(index)
    \/ CallLast

SpecLedger == Init /\ [][NextLedger]_vars

\* Instants over the day, for the strings of StringSlice.
RenderTimes == {Zero, At(0, 0), At(8, 0), At(9, 5), At(12, 30), At(23, 59)}

\* Any sequence of such instants, in any order.
InitRender ==
    /\ \E n \in 0..MaxLen : \E s \in [1..n -> RenderTimes] :
          /\ durations = Slice(IF n = 0 THEN 0 ELSE 1, n, n)
          /\ heap = [p \in Ptrs |-> IF p = 1 /\ n > 0 THEN s ELSE << >>]
    /\ NoCall
    /\ NoParse
    /\ fd = NoFrame
    /\ NoRead
    /\ NoSession

NextRender ==
    \/ CallLast
    \/ CallStringSlice

\* Last and StringSlice applied to an arbitrary sequence.
SpecRender == InitRender /\ [][NextRender]_vars


\* What the user types into the field, a key at a time: an hour of one
\* digit, of two digits, and no number.
SessionInputs == { << "8" >>, << "1", "2" >>, << "a" >> }
IsPrefix(s, t) == Len(s) <= Len(t) /\ SubSeq(t, 1, Len(s)) = s
Typable(s) == \E t \in SessionInputs : IsPrefix(s, t)

\* os.Args[1] of the variant with the probe: a target of one hour, and an
\* argument ParseTime rejects.
TargetArgs == { << "1" >>, << "a" >> }

\* What time.Now() reads when the totals are recomputed.
NowTimes == { At(10, 0), At(18, 0) }

\* main: the program is created with the initial model and, in the variant
\* with the probe, the goroutine is started.
InitSession ==
    /\ heap = [p \in Ptrs |-> << >>]
    /\ durations = EmptyLedger
    /\ NoCall
    /\ NoParse
    /\ fd = NoFrame
    /\ lastRet = Zero
    /\ strs = [isNil |-> TRUE, strs |-> << >>]
    /\ variant \in {"probe", "fixed"}
    /\ \E a \in TargetArgs :
          m = initialModel(IF variant = "probe" THEN TargetOf(a) ELSE FixedTarget)
    /\ probe = [pc |-> IF variant = "probe" THEN "start" ELSE "absent", result |-> NoResult]
    /\ program = "running"
    /\ delivered = 0
    /\ seeded = 0

\* The event loop takes messages while the program has not ended.
Looping == program \in {"running", "quitting"}

\* Update, tea.KeyMsg of a character other than q and x: it reaches the
\* list and the text input.
KeyRune(c) ==
    /\ Looping
    /\ Typable(Append(m.textInput, c))
    /\ m' = [m EXCEPT !.list = list_Update(m.list, c),
                      !.textInput = textInput_Update(m.textInput, c)]
    /\ op' = "rune"
    /\ UNCHANGED << heap, durations, variant, probe, program, delivered, seeded >>
    /\ UNCHANGED nonSessionVars

\* Update, tea.KeyMsg up or down: the list moves its cursor.
KeyCursor(k) ==
    /\ Looping
    /\ m' = [m EXCEPT !.list = list_Update(m.list, k),
                      !.textInput = textInput_Update(m.textInput, k)]
    /\ op' = "cursor"
    /\ UNCHANGED << heap, durations, variant, probe, program, delivered, seeded >>
    /\ UNCHANGED nonSessionVars

\* Update, tea.KeyMsg enter.
KeyEnter ==
    /\ Looping
    /\ LET r == ParseTime(m.textInput)
       IN  IF r.err # "nil"
           THEN /\ m' = [m EXCEPT !.textInput = RejectedInput(variant, m.textInput)]
                /\ UNCHANGED << heap, durations >>
           ELSE /\ durations.len < MaxEntries
                /\ \E now \in NowTimes :
                      LET a == model_Append(heap, m, durations, Instant(r.time), now)
                      IN  /\ m' = a.m
                          /\ heap' = a.heap
                          /\ durations' = a.durations
    /\ op' = "enter"
    /\ UNCHANGED << variant, probe, program, delivered, seeded >>
    /\ UNCHANGED nonSessionVars

\* Update, tea.KeyMsg x: the item under the cursor leaves the list, then
\* the entry at the list's index leaves the ledger; the totals are
\* recomputed.
KeyX ==
    /\ Looping
    /\ LET l == list_RemoveItem(m.list, list_Index(m.list))
           r == Durations_RemoveItem(heap, durations, list_Index(l))
           h2 == Collect(r.heap, {r.ret.ptr})
       IN  /\ heap' = h2
           /\ durations' = r.ret
           /\ \E now \in NowTimes :
                 m' = RecalculateDurations(h2, [m EXCEPT !.list = l], r.ret, now)
    /\ op' = "x"
    /\ UNCHANGED << variant, probe, program, delivered, seeded >>
    /\ UNCHANGED nonSessionVars

\* Update, tea.KeyMsg q or ctrl+c: quitting is set and tea.Quit returned.
KeyQuit ==
    /\ Looping
    /\ m' = [m EXCEPT !.quitting = TRUE]
    /\ program' = "quitting"
    /\ op' = "q"
    /\ UNCHANGED << heap, durations, variant, probe, delivered, seeded >>
    /\ UNCHANGED nonSessionVars

\* The event loop takes the quit message: p.Run returns and main ends.
ProgramExit ==
    /\ program = "quitting"
    /\ program' = "exited"
    /\ op' = "exit"
    /\ UNCHANGED << heap, durations, m, variant, probe, delivered, seeded >>
    /\ UNCHANGED nonSessionVars

\* The goroutine: up, err := platform.Startup(); if err != nil { return }.
\* A panic in the goroutine ends the process.
ProbeStartup ==
    /\ Looping
    /\ probe.pc = "start"
    /\ \E platform \in Platforms : \E cmd \in ProbeCommands :
          LET r == Startup(platform, cmd)
          IN  /\ probe' = [pc |-> IF r.panic THEN "panicked"
                                  ELSE IF r.err THEN "done" ELSE "send",
                           result |-> r]
              /\ program' = IF r.panic THEN "crashed" ELSE program
    /\ op' = "probe"
    /\ UNCHANGED << heap, durations, m, variant, delivered, seeded >>
    /\ UNCHANGED nonSessionVars

\* p.Send(systemStartupTime(up)) and Update, case systemStartupTime: the
\* start-up time is kept, and appended when the ledger is empty; otherwise
\* the message goes on to the list and the text input.
ProbeSend ==
    /\ Looping
    /\ probe.pc = "send"
    /\ LET up == probe.result.up
           m1 == [m EXCEPT !.startupTime = up]
       IN  IF SeedWanted(durations)
           THEN /\ \E now \in NowTimes :
                      LET a == model_Append(heap, m1, durations, up, now)
                      IN  /\ m' = a.m
                          /\ heap' = a.heap
                          /\ durations' = a.durations
                /\ seeded' = seeded + 1
           ELSE /\ m' = [m1 EXCEPT !.list = list_Update(m1.list, "startup")]
                /\ UNCHANGED << heap, durations, seeded >>
    /\ probe' = [probe EXCEPT !.pc = AfterSend]
    /\ delivered' = delivered + 1
    /\ op' = "startup"
    /\ UNCHANGED << variant, program >>
    /\ UNCHANGED nonSessionVars

NextSession ==
    \/ \E c \in Chars : KeyRune(c)
    \/ \E k \in {"up", "down"} : KeyCursor(k)
    \/ KeyEnter
    \/ KeyX
    \/ KeyQuit
    \/ ProgramExit
    \/ ProbeStartup
    \/ ProbeSend

\* The session: the user's keys and the start-up probe, in any order.
SpecSession == InitSession /\ [][NextSession]_vars

\* ============================================================== claims
\* What the last call returned, and what the slice passed to it shows now.
Returned == View(heap, durations)
ArgNow == View(heap, arg)

IsSorted(s) == \A i \in 1..(Len(s) - 1) : ~Before(s[i + 1], s[i])
Count(s, v) == Cardinality({i \in DOMAIN s : s[i] = v})

\* ---- C1
\* C1: starting from the empty ledger, after any sequence of Append and
\* RemoveItem calls (any values, any indices) the ledger the last call
\* returned is in non-decreasing chronological order.
C1_ReturnedLedgerSorted ==
    op \in {"Append", "RemoveItem"} => IsSorted(Returned)

\* An Append of a value earlier than every entry of a ledger of two.
C1_Witness ==
    /\ op = "Append"
    /\ Len(argBefore) = 2
    /\ Before(opTime, argBefore[1])
    /\ durations.len = 3
    /\ IsSorted(Returned)

\* ---- C2
\* The reference computation, stated without the code's loop and sort:
\* the k-th smallest element by counting, and the sum over the pairs.
NthSmallest(s, k) ==
    CHOOSE v \in Time :
        /\ Cardinality({i \in DOMAIN s : s[i] < v}) < k
        /\ Cardinality({i \in DOMAIN s : s[i] <= v}) >= k
RefSorted(s) == [k \in 1..Len(s) |-> NthSmallest(s, k)]

RECURSIVE RefPairTotal(_, _)
RefPairTotal(q, k) ==
    IF k = 0 THEN 0 ELSE (q[2 * k] - q[2 * k - 1]) + RefPairTotal(q, k - 1)

RefSum(s, now) ==
    LET c == IF Len(s) % 2 = 1 /\ now # Zero THEN s \o << now >> ELSE s
        q == RefSorted(c)
    IN  RefPairTotal(q, Len(q) \div 2)

\* C2: for every sequence, in any order, and every now,
\* SumPairedDurationsWithNow returns what the reference computation gives:
\* add now to a copy of odd length unless now is the zero sentinel, sort,
\* sum end - start over the pairs (0,1), (2,3), ..., ignore an unpaired
\* last element; 0 for the empty sequence.
C2_SumEqualsReference ==
    op = "Sum" => total = RefSum(argBefore, opTime)

\* An unsorted sequence of three and a non-zero now earlier than its
\* latest entry: now is paired at its sorted position.
C2_Witness ==
    /\ op = "Sum"
    /\ Len(argBefore) = 3
    /\ ~IsSorted(argBefore)
    /\ ~IsZero(opTime)
    /\ \E i \in 1..3 : Before(opTime, argBefore[i])
    /\ total > 0

\* ---- C3
RemoveAtRef(s, index) ==
    [k \in 1..(Len(s) - 1) |-> IF k <= index THEN s[k] ELSE s[k + 1]]

\* C3: for a sorted ledger of length n and a valid index i (0 <= i < n),
\* RemoveItem returns a sequence of length n-1 holding the elements other
\* than the i-th, in the order they had.
C3_RemoveItemValidIndex ==
    (/\ op = "RemoveItem"
     /\ IsSorted(argBefore)
     /\ 0 <= opIndex
     /\ opIndex < Len(argBefore))
    => /\ ~panicked
       /\ durations.len = Len(argBefore) - 1
       /\ Returned = RemoveAtRef(argBefore, opIndex)

\* The middle entry of a sorted ledger of three distinct entries removed.
C3_Witness ==
    /\ op = "RemoveItem"
    /\ Len(argBefore) = 3
    /\ Before(argBefore[1], argBefore[2])
    /\ Before(argBefore[2], argBefore[3])
    /\ opIndex = 1
    /\ Returned = << argBefore[1], argBefore[3] >>

\* ---- C4
\* C4: for every sequence, the empty one included, and every index that is
\* negative or >= its length, RemoveItem raises no error and returns the
\* input sequence: same header, same length, same contents.
C4_RemoveItemInvalidIndex ==
    (/\ op = "RemoveItem"
     /\ (opIndex < 0 \/ opIndex >= Len(argBefore)))
    => /\ ~panicked
       /\ durations = arg
       /\ Returned = argBefore

\* An index equal to the length of an unsorted sequence of two or more.
C4_Witness ==
    /\ op = "RemoveItem"
    /\ Len(argBefore) >= 2
    /\ ~IsSorted(argBefore)
    /\ opIndex = Len(argBefore)
    /\ Returned = argBefore

\* ---- C5
\* C5: for every input sequence of length n, sorted or not, with or without
\* duplicates, and every value v, Append does not fail and returns a
\* sequence of length n+1, in non-decreasing order, whose elements are the
\* input's plus one more occurrence of v.
C5_AppendAddsOneSorted ==
    op = "Append"
    => /\ ~panicked
       /\ durations.len = Len(argBefore) + 1
       /\ IsSorted(Returned)
       /\ \A v \in Time :
            Count(Returned, v) = Count(argBefore, v) + (IF v = opTime THEN 1 ELSE 0)

\* A value already present appended to an unsorted sequence.
C5_Witness ==
    /\ op = "Append"
    /\ Len(argBefore) >= 2
    /\ ~IsSorted(argBefore)
    /\ Count(argBefore, opTime) >= 1
    /\ Count(Returned, opTime) = Count(argBefore, opTime) + 1

\* ---- C6
\* C6: Append and RemoveItem never change the sequence they were given:
\* after the call the slice the caller passed in still shows the same
\* elements at the same positions; only the returned slice differs.
C6_CallerSequenceUntouched ==
    op \in {"Append", "RemoveItem"}
    => /\ arg.len = Len(argBefore)
       /\ ArgNow = argBefore

\* ---- C7
\* C7: SumPairedDurationsWithNow never changes the caller's sequence: after
\* the call it has the same length, the same elements and the same order
\* (now is not added to it and it is not sorted).
C7_SumLeavesCallerSequence ==
    op = "Sum"
    => /\ durations = arg
       /\ arg.len = Len(argBefore)
       /\ ArgNow = argBefore

\* An unsorted sequence of odd length with spare capacity, summed with a
\* non-zero now.
C7_Witness ==
    /\ op = "Sum"
    /\ Len(argBefore) = 3
    /\ ~IsSorted(argBefore)
    /\ arg.cap > arg.len
    /\ ~IsZero(opTime)
    /\ ArgNow = argBefore

\* ---- C8
\* C8: for a sequence of even length the total is the same for every now:
\* the zero sentinel, a now earlier than, between or later than the entries.
C8_EvenLengthIgnoresNow ==
    (op = "Sum" /\ Len(argBefore) % 2 = 0)
    => \A now \in Time : SumPairedDurationsWithNow(heap, arg, now).total = total

\* Four entries, not all equal, summed with a now strictly between them.
C8_Witness ==
    /\ op = "Sum"
    /\ Len(argBefore) = 4
    /\ total > 0
    /\ \E i, j \in 1..4 : Before(argBefore[i], opTime) /\ Before(opTime, argBefore[j])

\* ---- C9
\* The sequence without its chronologically last entry.
WithoutLatest(s) == SubSeq(RefSorted(s), 1, Len(s) - 1)

\* C9: for a sequence of odd length and the zero sentinel as now, the total
\* is the paired sum of the sequence without its chronologically last
\* entry: that entry is in no pair.
C9_OddZeroNowDropsLatest ==
    (op = "Sum" /\ Len(argBefore) % 2 = 1 /\ IsZero(opTime))
    => total = RefSum(WithoutLatest(argBefore), Zero)

\* Three entries out of order, summed with the zero sentinel; the latest
\* entry is later than the other two and adds nothing.
C9_Witness ==
    /\ op = "Sum"
    /\ IsZero(opTime)
    /\ Len(argBefore) = 3
    /\ ~IsSorted(argBefore)
    /\ total > 0
    /\ total < RefSorted(argBefore)[3] - RefSorted(argBefore)[1]

\* ---- C10
\* The working copy holds one and the same instant in every cell.
AllEqual(s, now) ==
    /\ \A i, j \in DOMAIN s : s[i] = s[j]
    /\ NeedsNow(Len(s), now) => now = s[1]

\* C10: for every sequence and every now the total is >= 0, and pairs of
\* equal entries add exactly zero.
C10_TotalNeverNegative ==
    op = "Sum"
    => /\ total >= 0
       /\ AllEqual(argBefore, opTime) => total = 0

\* Two or more equal non-zero entries: every pair has end = start.
C10_Witness ==
    /\ op = "Sum"
    /\ Len(argBefore) >= 2
    /\ ~IsZero(argBefore[1])
    /\ AllEqual(argBefore, opTime)
    /\ total = 0

\* ---- C11
\* The grammar, stated on the positions of the colons: digits only but for
\* at most one colon; without a colon 1 to 4 characters; with one, the
\* colon is the 2nd or 3rd character and exactly two characters follow it.
Grammar(s) ==
    LET colons == {i \in DOMAIN s : s[i] = ":"}
    IN  /\ \A i \in (DOMAIN s) \ colons : IsDigit(s[i])
        /\ \/ colons = {} /\ Len(s) >= 1 /\ Len(s) <= 4
           \/ \E p \in {2, 3} : colons = {p} /\ Len(s) = p + 2

\* The string without its leading and trailing spaces.
RECURSIVE TrimLeft(_)
TrimLeft(s) == IF s # << >> /\ Head(s) = " " THEN TrimLeft(Tail(s)) ELSE s
RECURSIVE TrimRight(_)
TrimRight(s) ==
    IF s # << >> /\ s[Len(s)] = " " THEN TrimRight(SubSeq(s, 1, Len(s) - 1)) ELSE s
TrimSpace(s) == TrimRight(TrimLeft(s))

\* The call got past the format stage: it succeeded or failed on a range.
PassesFormat == parsed.err \in {"nil", "hours", "minutes"}

\* C11 as stated: ParseTime applies the grammar to the trimmed input; it
\* passes the format stage exactly when the input without surrounding
\* whitespace is 1-4 digits or 1-2 digits, a colon and 2 digits, and every
\* other input fails with a format error.
C11_GrammarOnTrimmedInput ==
    op = "ParseTime"
    => /\ PassesFormat <=> Grammar(TrimSpace(timeStr))
       /\ ~PassesFormat => parsed.err = "format" /\ parsed.time = NoTime

\* C11 amended: ParseTime applies the grammar to the input as it is given,
\* without trimming: it passes the format stage exactly when the whole
\* input is 1-4 digits or 1-2 digits, a colon and 2 digits; every other
\* input (the empty string, non-digit characters, surrounding whitespace)
\* fails with a format error and the zero time.
C11_GrammarOnInputAsGiven ==
    op = "ParseTime"
    => /\ PassesFormat <=> Grammar(timeStr)
       /\ ~PassesFormat => parsed.err = "format" /\ parsed.time = NoTime

\* A string that is in the grammar only once trimmed is rejected.
C11_Witness ==
    /\ op = "ParseTime"
    /\ timeStr # TrimSpace(timeStr)
    /\ Grammar(TrimSpace(timeStr))
    /\ parsed.err = "format"

\* ---- C12
\* The digits of the input, colon left out, and the number they write.
DigitsOf(s) == SelectSeq(s, IsDigit)
RECURSIVE NumberOf(_)
NumberOf(ds) == IF ds = << >> THEN 0 ELSE DigitVal(Head(ds)) * (10 ^ (Len(ds) - 1)) + NumberOf(Tail(ds))

\* One or two digits are the hour; of three or four digits the last two
\* are the minute and the ones before them the hour.
RefHour(s) ==
    IF Len(DigitsOf(s)) <= 2 THEN NumberOf(DigitsOf(s)) ELSE NumberOf(DigitsOf(s)) \div 100
RefMinute(s) ==
    IF Len(DigitsOf(s)) <= 2 THEN 0 ELSE NumberOf(DigitsOf(s)) % 100

\* C12: for every input in the grammar and in range ParseTime succeeds
\* with hour and minute read as above (so "7:30", "730" and "0730" agree,
\* as do "14", "1400" and "14:00"), and with seconds and sub-seconds zero.
C12_HourAndMinute ==
    (/\ op \in {"ParseTime", "FormatTime"}
     /\ Grammar(timeStr)
     /\ RefHour(timeStr) <= 23
     /\ RefMinute(timeStr) <= 59)
    => /\ parsed.err = "nil"
       /\ parsed.time = [zero |-> FALSE, hour |-> RefHour(timeStr),
                         minute |-> RefMinute(timeStr), second |-> 0, nsec |-> 0]

\* "730" parsed as 07:30.
C12_Witness ==
    /\ op = "ParseTime"
    /\ timeStr = << "7", "3", "0" >>
    /\ parsed.err = "nil"
    /\ parsed.time.hour = 7
    /\ parsed.time.minute = 30
    /\ parsed.time.second = 0

\* ---- C13
\* C13: every input in the grammar whose hour is over 23 or whose minute is
\* over 59 ("24", "25:00", "14:60", "960", "2400") gets an error and no
\* time; none is accepted or wrapped around.
C13_OutOfRangeRejected ==
    (/\ op = "ParseTime"
     /\ Grammar(timeStr)
     /\ (RefHour(timeStr) > 23 \/ RefMinute(timeStr) > 59))
    => /\ parsed.err \in {"hours", "minutes"}
       /\ parsed.time = NoTime

\* "960" is 09:60: rejected for its minute.
C13_Witness ==
    /\ op = "ParseTime"
    /\ timeStr = << "9", "6", "0" >>
    /\ parsed.err = "minutes"
    /\ parsed.time = NoTime

\* ---- C14
\* "HH:MM" with HH in 00-23 and MM in 00-59.
Canonical(s) ==
    /\ Len(s) = 5
    /\ s[3] = ":"
    /\ \A i \in {1, 2, 4, 5} : IsDigit(s[i])
    /\ 10 * DigitVal(s[1]) + DigitVal(s[2]) <= 23
    /\ 10 * DigitVal(s[4]) + DigitVal(s[5]) <= 59

\* C14: for every canonical "HH:MM" ParseTime succeeds, and formatting its
\* result as "HH:MM" gives the string back.
C14_RoundTrip ==
    /\ (op \in {"ParseTime", "FormatTime"} /\ Canonical(timeStr)) => parsed.err = "nil"
    /\ (op = "FormatTime" /\ Canonical(timeStr)) => formatted = timeStr

\* "23:59" parsed and formatted back.
C14_Witness ==
    /\ op = "FormatTime"
    /\ timeStr = << "2", "3", ":", "5", "9" >>
    /\ formatted = timeStr

\* ---- C18
\* C18: FormatDuration of zero is "00:00", and for every negative d,
\* the most negative one included, FormatDuration(d) returns, and returns
\* "-" followed by what FormatDuration gives for the absolute value of d.
C18_NegativeDurationsFormatted ==
    /\ fd.pc # "overflow"
    /\ (fd.pc = "done" /\ fd.arg = 0) => fd.out = << "0", "0", ":", "0", "0" >>
    /\ (fd.pc = "done" /\ fd.arg < 0) => fd.out = << "-" >> \o formatHM(0 - fd.arg)

\* The same for every duration but the most negative one: a negative d
\* is formatted in two activations.
C18_AllButMostNegative ==
    fd.arg # MinDuration
    => /\ fd.pc # "overflow"
       /\ fd.depth <= 2
       /\ (fd.pc = "done" /\ fd.arg = 0) => fd.out = << "0", "0", ":", "0", "0" >>
       /\ (fd.pc = "done" /\ fd.arg < 0) => fd.out = << "-" >> \o formatHM(0 - fd.arg)

\* Minus one hour and a half formatted as "-01:30".
C18_Witness ==
    /\ fd.pc = "done"
    /\ fd.arg = 0 - (Hour + 30 * Minute)
    /\ fd.out = << "-", "0", "1", ":", "3", "0" >>

\* ---- C19
\* C19: Last returns the zero sentinel for the empty sequence, and for a
\* non-empty ledger reached through Append and RemoveItem it returns an
\* entry of the ledger that no entry is later than.
C19_LastIsLatest ==
    op = "Last"
    => /\ argBefore = << >> => IsZero(lastRet)
       /\ argBefore # << >> =>
            /\ \E i \in DOMAIN argBefore : argBefore[i] = lastRet
            /\ \A i \in DOMAIN argBefore : ~Before(lastRet, argBefore[i])

\* Last on a ledger of three or more whose entries are not all equal.
C19_Witness ==
    /\ op = "Last"
    /\ Len(argBefore) >= 3
    /\ Before(argBefore[1], lastRet)
    /\ lastRet = argBefore[Len(argBefore)]

\* ---- C20
\* "HH:MM" of an instant: the minute of the day written as two digits of
\* hours, a colon and two digits of minutes; 00:00 for time.Time{}.
RefHHMM(t) ==
    LET mod == IF t = Zero THEN 0 ELSE t - 1
        hh  == mod \div 60
        mi  == mod % 60
    IN  << DigitChars[(hh \div 10) + 1], DigitChars[(hh % 10) + 1], ":",
           DigitChars[(mi \div 10) + 1], DigitChars[(mi % 10) + 1] >>

\* C20: for a sequence of length n StringSlice returns n strings, the i-th
\* the zero-padded 24-hour "HH:MM" of the i-th entry, in the sequence's
\* order; for the empty sequence an empty result that is not nil.
C20_StringSliceRendersEach ==
    op = "StringSlice"
    => /\ ~strs.isNil
       /\ Len(strs.strs) = Len(argBefore)
       /\ \A i \in DOMAIN argBefore : strs.strs[i] = RefHHMM(argBefore[i])

\* Three entries out of order keep their order in the strings.
C20_Witness ==
    /\ op = "StringSlice"
    /\ argBefore = << At(8, 0), At(12, 30), At(9, 5) >>
    /\ strs.strs = << << "0", "8", ":", "0", "0" >>,
                      << "1", "2", ":", "3", "0" >>,
                      << "0", "9", ":", "0", "5" >> >>

\* StringSlice of the empty sequence.
C20_WitnessEmpty ==
    /\ op = "StringSlice"
    /\ argBefore = << >>
    /\ strs = [isNil |-> FALSE, strs |-> << >>]

\* ---- C15
\* What the session shows of its state: the ledger, the totals and the
\* rows of the list.
SessionLedger == View(heap, durations)
SessionTotals == << m.total, m.totalProvisionnal, m.overtime, m.planned, m.percentage >>

\* The step is Update handling enter on a text ParseTime rejects.
RejectedEnter == op' = "enter" /\ ParseTime(m.textInput).err # "nil"

\* C15: when the user presses enter on input that ParseTime rejects, the
\* ledger, the totals and the displayed list are left exactly as they
\* were, the input field is cleared and the session keeps running.
C15_RejectedEnterClearsInput ==
    [][RejectedEnter =>
          /\ SessionLedger' = SessionLedger
          /\ SessionTotals' = SessionTotals
          /\ m'.list = m.list
          /\ m'.textInput = << >>
          /\ program' = program]_vars

\* The same in the variant with the start-up probe alone.
C15_InProbeVariant ==
    [][(RejectedEnter /\ variant = "probe") =>
          /\ SessionLedger' = SessionLedger
          /\ SessionTotals' = SessionTotals
          /\ m'.list = m.list
          /\ m'.textInput = << >>
          /\ program' = program]_vars

\* ---- C16
\* The probe has failed: Startup returned an error or did not return.
ProbeFailed == probe.result.err \/ probe.result.panic

\* C16: a failure of the boot-time probe, the command being unavailable or
\* its output empty or too short, never crashes the session, and the
\* ledger then receives no seed entry.
C16_ProbeFailureSwallowed ==
    ProbeFailed => (program # "crashed" /\ delivered = 0 /\ seeded = 0)

\* The part that holds: an error Startup returns is swallowed.
C16_ReturnedErrorSwallowed ==
    probe.result.err => (program # "crashed" /\ delivered = 0 /\ seeded = 0)

\* ---- C17
\* C17: in every interleaving of the probe with the user's actions, at
\* most one system-startup message is processed and at most one seed entry
\* is inserted into the ledger.
C17_AtMostOneSeed == delivered <= 1 /\ seeded <= 1

\* The seed was inserted and the user has removed it: the ledger is empty
\* again, as it was when the seed was wanted.
C17_Witness ==
    /\ delivered = 1
    /\ seeded = 1
    /\ op = "x"
    /\ durations.len = 0
    /\ probe.pc = "done"

\* ---- C21
\* The step changes the ledger of the session: an accepted enter, the
\* start-up seed, or an x that removes an entry.
LedgerChanged == SessionLedger' # SessionLedger

\* The total and the overtime the ledger alone gives.
RefTotal == SumPairedDurationsWithNow(heap, durations, Zero).total
TotalFromLedger == m.total = RefTotal /\ m.overtime = RefTotal - m.target

\* The projected finish the ledger alone gives: none for the empty ledger,
\* as in a fresh session, else the latest entry plus what is left to do.
PlannedFromLedger ==
    m.planned = IF SessionLedger = << >> THEN << >>
                ELSE AddFormat(SessionLedger[Len(SessionLedger)], m.target - RefTotal)

\* C21: after every session action that changes the ledger, total equals
\* SumPairedDurationsWithNow(ledger, zero), overtime equals total minus
\* target, and no summary field keeps a value computed from an earlier
\* ledger.
C21_SummaryFromLedgerAlone ==
    [][LedgerChanged => (TotalFromLedger' /\ PlannedFromLedger')]_vars

\* The part that holds: the total follows the ledger in every state, and
\* the overtime does once the totals have been recomputed.
C21_TotalAndOvertime ==
    /\ m.total = RefTotal
    /\ (durations.len > 0 \/ op = "x") => m.overtime = RefTotal - m.target

\* ---- C22
\* The step is Update handling the system-startup message.
StartupProcessed == delivered' # delivered

\* C22: when the system-startup message is processed, the start-up time is
\* inserted into the ledger if and only if the ledger is empty at that
\* moment; otherwise the ledger is left unchanged and the start-up time is
\* only recorded for display. In either case the ledger stays sorted.
C22_SeedIffLedgerEmpty ==
    [][StartupProcessed =>
          /\ IF durations.len = 0
             THEN SessionLedger' = << probe.result.up >>
             ELSE SessionLedger' = SessionLedger
          /\ m'.startupTime = probe.result.up
          /\ IsSorted(SessionLedger')]_vars

\* The user's entry was there first: the message was processed, no seed
\* was inserted, the start-up time is recorded and is not in the ledger.
C22_Witness ==
    /\ op = "startup"
    /\ delivered = 1
    /\ seeded = 0
    /\ durations.len >= 1
    /\ m.startupTime = probe.result.up
    /\ \A i \in 1..durations.len : SessionLedger[i] # m.startupTime

RefPlanned ==
    LET latest == SessionLedger[Len(SessionLedger)]
        minute == ((latest - 1) + (m.target - m.total)) % (24 * 60)
    IN  RefHHMM(1 + minute)

\* The step is an x after which the ledger is empty.
EmptiedByX == op' = "x" /\ durations'.len = 0

\* C24: the projected finish is Last(ledger) + (target - total) after every
\* recalculation on a non-empty ledger, and is left at its previous value
\* when the ledger is empty: after x removals empty the ledger the session
\* still holds the projected finish of the entries that were removed.
C24_PlannedKeptWhenEmpty ==
    /\ [](durations.len > 0 => m.planned = RefPlanned)
    /\ [][EmptiedByX => m'.planned = m.planned]_vars

\* The ledger has been emptied with x and a projected finish is held.
C24_Witness ==
    /\ op = "x"
    /\ durations.len = 0
    /\ m.planned # << >>

\* ---- C25
\* The last call was SumPairedDurationsWithNow on a sorted ledger with a
\* non-zero now that is not earlier than the ledger's latest entry.
SumOnSortedWithLaterNow ==
    /\ op = "Sum"
    /\ IsSorted(argBefore)
    /\ ~IsZero(opTime)
    /\ argBefore # << >> => ~Before(opTime, argBefore[Len(argBefore)])

\* SumPairedDurationsWithNow(ledger, zero sentinel) of the same ledger.
TotalOfArg == SumPairedDurationsWithNow(heap, arg, Zero).total

\* C25: for every sorted ledger and every non-zero now not earlier than its
\* latest entry, the provisional total is at least the total: equal to it
\* for a ledger of even length, and the total plus (now - latest entry) for
\* one of odd length.
C25_ProvisionalAtLeastTotal ==
    SumOnSortedWithLaterNow =>
        /\ total >= TotalOfArg
        /\ Len(argBefore) % 2 = 0 => total = TotalOfArg
        /\ Len(argBefore) % 2 = 1 =>
              total = TotalOfArg + (opTime - argBefore[Len(argBefore)])

\* A ledger of three entries, a closed pair and an open one, with a later
\* now: the provisional total is strictly greater.
C25_Witness ==
    /\ SumOnSortedWithLaterNow
    /\ Len(argBefore) = 3
    /\ TotalOfArg > 0
    /\ total > TotalOfArg


====
